---- MODULE Spec2Model ----
(***************************************************************************)
(* Recipe service (FastAPI + SQLAlchemy AsyncSession over SQLite).         *)
(*                                                                         *)
(* The committed store is the three tables of src/src/models.py.  Every    *)
(* request runs in a session of its own (src/src/database.py get_db); a    *)
(* handler is a coroutine that can be suspended at each `await`, so one    *)
(* action below is the code between two awaits of one request.  A session  *)
(* reads the committed store until its first flush; from the first flush   *)
(* to its commit or rollback it holds SQLite's single write lock and works *)
(* on a private copy (txdb).  A session that needs the lock while another  *)
(* holds it either waits (no step) or gives up with "database is locked".  *)
(* SQLite does not enforce the ForeignKey declarations (PRAGMA             *)
(* foreign_keys is never switched on); PRIMARY KEY and UNIQUE are enforced.*)
(* Recipe.description and Recipe.cook_time are stored and patched the way  *)
(* Recipe.title is, without its UNIQUE constraint; they are left out.      *)
(***************************************************************************)
EXTENDS Integers, Sequences, FiniteSets, TLC

\* ---------------------------------------------------------------- bounds
MaxIngs == 2
MaxViews == 2
MaxRecipeId == 2

\* Field(..., min_items=1) of RecipeCreate.ingredients and RecipeUpdate.ingredients
MinItems == 1

\* The request slots: two requests overlap at a time.
Req == {1, 2}
RTitles == {"a", "b"}
ITitles == {"x", "y"}
Quantities == {"q1", "q2"}
NoTitle == "none"
IngLists == UNION {[1..n -> ITitles] : n \in 0..MaxIngs}

\* The workloads the clients submit.  Each is a restriction of the request
\* parameters: the recipe ids in use (ids), the titles posted (titles) and
\* patched (ptitles), the ingredient lists (lists) and quantities (qs) of the
\* payloads, and the number of views up to which a recipe is fetched (views).
ManyRecipes ==
    [ids |-> MaxRecipeId, titles |-> RTitles, ptitles |-> RTitles \cup {NoTitle},
     lists |-> {<<>>, <<"x">>}, qs |-> {"q1"}, views |-> 0]
ManyIngredients ==
    [ids |-> 1, titles |-> {"a"}, ptitles |-> {NoTitle},
     lists |-> IngLists, qs |-> {"q1"}, views |-> 0]
ManyQuantities ==
    [ids |-> 1, titles |-> {"a"}, ptitles |-> {NoTitle, "b"},
     lists |-> {<<>>, <<"x">>}, qs |-> Quantities, views |-> 0]
ManyViews ==
    [ids |-> 1, titles |-> {"a"}, ptitles |-> {NoTitle, "b"},
     lists |-> {<<"x">>}, qs |-> {"q1"}, views |-> MaxViews]
Workloads == {ManyRecipes, ManyIngredients, ManyQuantities, ManyViews}

VARIABLES db, txdb, lock, req, sess, open, load

vars == <<db, txdb, lock, req, sess, open, load>>

\* --------------------------------------------------------- faulty variants
\* A formula that holds of the program must fail once one of these replaces
\* the definition it is a faulty variant of.
\* create_recipe without its title lookup.
TitleExistsNever(d, t) == FALSE
\* RecipeUpdate without min_items on ingredients.
RecipeUpdateValidAny(supplied, ings) == TRUE
\* delete_recipe without its DELETE FROM recipe_ingredient.
DeleteAssocOfNone(d, rid) == d
\* Ingredient.title without unique=True.
IngredientTitleTakenNever(rows, t) == FALSE
\* One session object handed to every request.
NewSessionShared(live) == 1

\* ------------------------------------------------------------ the tables
EmptyDb == [recipes |-> {}, ingredients |-> {}, assoc |-> {}]

Max(S) == CHOOSE m \in S : \A n \in S : n <= m

\* INTEGER PRIMARY KEY without AUTOINCREMENT: the next rowid is max + 1.
NextId(rows) == IF rows = {} THEN 1 ELSE Max({w.id : w \in rows}) + 1

\* select(Recipe).where(Recipe.title == recipe.title) ... existing.scalar()
TitleExists(d, t) == \E w \in d.recipes : w.title = t

HasRecipe(d, rid) == \E w \in d.recipes : w.id = rid
RecipeRow(d, rid) == CHOOSE w \in d.recipes : w.id = rid
HasIngredient(d, t) == \E g \in d.ingredients : g.title = t
IngredientRow(d, t) == CHOOSE g \in d.ingredients : g.title = t
AssocOf(d, rid) == {e \in d.assoc : e.recipe_id = rid}

\* RecipeIngredient: PRIMARY KEY (recipe_id, ingredient_id).
PkTaken(rows, e) ==
    \E f \in rows : f.recipe_id = e.recipe_id /\ f.ingredient_id = e.ingredient_id

\* Column(..., unique=True) on Ingredient.title.
IngredientTitleTaken(rows, t) == \E g \in rows : g.title = t

\* Column(..., unique=True) on Recipe.title; `self` is the row being updated.
RecipeTitleTaken(rows, t, self) == \E w \in rows : w.title = t /\ w.id # self

\* Recipe(title=...): views takes its column default.
NewRecipe(id, t) == [id |-> id, title |-> t, views |-> 0]

\* recipe.views += 1 on the loaded object: the value written is loaded + 1.
BumpViews(loadedViews) == loadedViews + 1

\* UPDATE recipes SET views = :v WHERE id = :rid
SetViews(d, rid, v) ==
    [d EXCEPT !.recipes =
        {IF w.id = rid THEN [w EXCEPT !.views = v] ELSE w : w \in d.recipes}]

\* DELETE FROM recipe_ingredient WHERE recipe_id = :rid
DeleteAssocOf(d, rid) == [d EXCEPT !.assoc = {e \in d.assoc : e.recipe_id # rid}]

\* DELETE FROM recipes WHERE id = :rid (no row matched: a warning only)
DeleteRecipeRow(d, rid) == [d EXCEPT !.recipes = {w \in d.recipes : w.id # rid}]

\* ---------------------------------------------------------- the requests
\* One request: the handler (op), its position (pc), the path parameter
\* (rid), the pending title change (title), how the payload's ingredients
\* field came ("unset", "empty", "items"), the items still to process (ings)
\* with their quantity (q), the titles a PATCH named (named), the loaded
\* views (v), the loaded association rows marked for deletion (del), the
\* association added but not yet flushed
\* (pend), the response status, and the rows the request has committed to
\* the store so far (added).
Idle == [op |-> "idle", pc |-> "idle", rid |-> 0, title |-> NoTitle,
         field |-> "unset", ings |-> <<>>, named |-> {}, q |-> NoTitle, v |-> 0,
         del |-> {}, pend |-> {}, status |-> 0, added |-> EmptyDb]

InFlight(r) == req[r].op # "idle"

\* What session r reads: its own transaction if it holds the write lock.
View(r) == IF lock = r THEN txdb ELSE db

Busy(r) == lock # 0 /\ lock # r

\* async_session_maker(): a session object distinct from every live one.
NewSession(live) == CHOOSE s \in 1..(Cardinality(live) + 1) : s \notin live

\* async with async_session_maker() as session: ... (the exit closes it)
SessionExit(live, s) == live \ {s}

\* A new request takes the lowest free slot (slots are only names).
Acquire(r) ==
    /\ ~InFlight(r)
    /\ \A k \in Req : k < r => InFlight(k)
    /\ sess' = [sess EXCEPT ![r] = NewSession(open)]
    /\ open' = open \cup {NewSession(open)}
    /\ UNCHANGED load

\* The handler returns or raises: the response status is fixed.  A flush
\* that fails, and the explicit rollback of update_recipe / delete_recipe,
\* end the session's transaction.
Ended(rec, st) ==
    [rec EXCEPT !.pc = "done", !.status = st, !.q = NoTitle,
                !.ings = <<>>, !.named = {}, !.v = 0, !.pend = {},
                !.del = IF rec.op = "delete" THEN rec.del ELSE {}]

Finish(r, st) ==
    /\ req' = [req EXCEPT ![r] = Ended(req[r], st)]
    /\ lock' = IF lock = r THEN 0 ELSE lock
    /\ txdb' = IF lock = r THEN db ELSE txdb
    /\ UNCHANGED db

FinishNew(r, rec, st) ==
    /\ req' = [req EXCEPT ![r] = Ended(rec, st)]
    /\ UNCHANGED <<db, txdb, lock>>

\* A step that commits nothing: with a flush the session takes (or keeps) the
\* write lock and d is its private copy; without one nothing but the
\* request's own position changes.
Work(r, flushed, d, rec) ==
    /\ req' = [req EXCEPT ![r] = rec]
    /\ lock' = IF flushed THEN r ELSE lock
    /\ txdb' = IF flushed THEN d ELSE txdb
    /\ UNCHANGED db

\* session.commit(): the transaction's copy becomes the committed store.
Commit(r, d, rec) ==
    /\ db' = d
    /\ txdb' = d
    /\ lock' = 0
    /\ req' = [req EXCEPT ![r] = [rec EXCEPT !.added =
                  [recipes |-> @.recipes \cup (d.recipes \ db.recipes),
                   ingredients |-> @.ingredients \cup (d.ingredients \ db.ingredients),
                   assoc |-> @.assoc \cup (d.assoc \ db.assoc)]]]

\* get_db's exit: the session is closed (an open transaction is rolled back).
Release(r) ==
    /\ req[r].pc = "done"
    /\ req' = [req EXCEPT ![r] = Idle]
    /\ open' = SessionExit(open, sess[r])
    /\ sess' = [sess EXCEPT ![r] = 0]
    /\ UNCHANGED load
    /\ lock' = IF lock = r THEN 0 ELSE lock
    /\ txdb' = IF lock = r THEN db ELSE txdb
    /\ UNCHANGED db

\* ---------------------------------------------------- GET /recipes/
get_all_recipes(r) ==
    /\ Acquire(r)
    /\ FinishNew(r, [Idle EXCEPT !.op = "list"], 200)

\* ---------------------------------------------------- GET /recipes/{id}
GetSelect(r, rid) ==
    /\ Acquire(r)
    /\ IF ~HasRecipe(db, rid)
       THEN FinishNew(r, [Idle EXCEPT !.op = "get", !.rid = rid], 404)
       ELSE /\ RecipeRow(db, rid).views < load.views
            /\ req' = [req EXCEPT ![r] = [Idle EXCEPT !.op = "get", !.pc = "get_commit",
                                 !.rid = rid, !.v = RecipeRow(db, rid).views]]
            /\ UNCHANGED <<db, txdb, lock>>

GetCommit(r) ==
    /\ req[r].pc = "get_commit"
    /\ UNCHANGED <<sess, open, load>>
    /\ IF Busy(r) \/ ~HasRecipe(db, req[r].rid)
       THEN Finish(r, 500)
       ELSE Commit(r, SetViews(db, req[r].rid, BumpViews(req[r].v)),
                   [req[r] EXCEPT !.pc = "get_refresh"])

GetRefresh(r) ==
    /\ req[r].pc = "get_refresh"
    /\ UNCHANGED <<sess, open, load>>
    /\ Finish(r, IF HasRecipe(db, req[r].rid) THEN 200 ELSE 500)

get_recipe_detail(r) ==
    \/ \E rid \in 1..load.ids : GetSelect(r, rid)
    \/ GetCommit(r)
    \/ GetRefresh(r)

\* ---------------------------------------------------- validation models
\* RecipeCreate: ingredients is required and holds at least MinItems items.
RecipeCreateValid(ings) == Len(ings) >= MinItems

\* RecipeUpdate: ingredients may be left unset; a supplied list holds at
\* least MinItems items.
RecipeUpdateValid(supplied, ings) == ~supplied \/ Len(ings) >= MinItems

\* How the ingredients field of a payload came.
Field(supplied, ings) ==
    IF ~supplied THEN "unset" ELSE IF ings = <<>> THEN "empty" ELSE "items"

\* ---------------------------------------------------- flushing
\* INSERT INTO recipe_ingredient of the pending association rows.
InsertConflict(d, rows) == \E e \in rows : PkTaken(d.assoc, e)
InsertAssoc(d, rows) == [d EXCEPT !.assoc = @ \cup rows]

\* INSERT INTO ingredients (title)
InsertIngredient(d, t) ==
    [d EXCEPT !.ingredients = @ \cup {[id |-> NextId(d.ingredients), title |-> t]}]

\* RecipeIngredient(recipe_id=..., ingredient_id=db_ingredient.id, quantity=...)
Association(rid, d, t, q) ==
    [recipe_id |-> rid, ingredient_id |-> IngredientRow(d, t).id, quantity |-> q]

\* The unit of work of update_recipe: UPDATE recipes SET title (0 rows matched
\* raises StaleDataError, a taken title IntegrityError), DELETE of the loaded
\* association rows by primary key (0 rows matched is a warning), INSERT of
\* the pending ones.
PatchFlushFails(d, rec) ==
    \/ /\ rec.title # NoTitle
       /\ \/ ~HasRecipe(d, rec.rid)
          \/ RecipeTitleTaken(d.recipes, rec.title, rec.rid)
    \/ \E e \in rec.pend : PkTaken({f \in d.assoc : ~PkTaken(rec.del, f)}, e)

PatchFlush(d, rec) ==
    [d EXCEPT
       !.recipes = {IF w.id = rec.rid /\ rec.title # NoTitle
                    THEN [w EXCEPT !.title = rec.title] ELSE w : w \in @},
       !.assoc = {f \in @ : ~PkTaken(rec.del, f)} \cup rec.pend]

Dirty(rec) == rec.title # NoTitle \/ rec.del # {} \/ rec.pend # {}

\* The position after the first of the items `ings` is processed.
AfterItem(ings, loop, after) == IF Tail(ings) # <<>> THEN loop ELSE after

\* The position after the load: the loop runs once per supplied item.
BeforeItems(ings, loop, after) == IF ings # <<>> THEN loop ELSE after

\* The highest recipe id the store can hold once every INSERT under way is done.
PendingInserts == Cardinality({k \in Req : req[k].pc = "c_insert"})
HighestId == IF db.recipes = {} THEN 0 ELSE Max({w.id : w \in db.recipes})

\* ---------------------------------------------------- POST /recipes/
CreateCheck(r, t, ings, q) ==
    /\ Acquire(r)
    /\ LET rec == [Idle EXCEPT !.op = "create", !.title = t,
                               !.field = Field(TRUE, ings), !.ings = ings, !.q = q]
       IN  IF ~RecipeCreateValid(ings) THEN FinishNew(r, rec, 422)
           ELSE IF TitleExists(db, t) THEN FinishNew(r, rec, 400)
           ELSE /\ HighestId + PendingInserts < load.ids
                /\ req' = [req EXCEPT ![r] = [rec EXCEPT !.pc = "c_insert"]]
                /\ UNCHANGED <<db, txdb, lock>>

\* db.add(new_recipe); await db.commit()
CreateInsert(r) ==
    /\ req[r].pc = "c_insert"
    /\ UNCHANGED <<sess, open, load>>
    /\ IF Busy(r) \/ RecipeTitleTaken(db.recipes, req[r].title, 0)
       THEN Finish(r, 500)
       ELSE Commit(r, [db EXCEPT !.recipes =
                           @ \cup {NewRecipe(NextId(db.recipes), req[r].title)}],
                   [req[r] EXCEPT !.pc = "c_refresh", !.rid = NextId(db.recipes),
                                  !.title = NoTitle])

\* await db.refresh(new_recipe)
CreateRefresh(r) ==
    /\ req[r].pc = "c_refresh"
    /\ UNCHANGED <<sess, open, load>>
    /\ IF HasRecipe(db, req[r].rid)
       THEN Work(r, FALSE, db, [req[r] EXCEPT !.pc = "c_loop"])
       ELSE Finish(r, 500)

\* The SELECT of the ingredient by title; it autoflushes the association
\* added by the previous iteration.  A found ingredient is associated at once.
CreateIngSelect(r) ==
    /\ req[r].pc = "c_loop"
    /\ UNCHANGED <<sess, open, load>>
    /\ LET rec == req[r]
           flush == rec.pend # {}
           d == IF flush THEN InsertAssoc(View(r), rec.pend) ELSE View(r)
           t == Head(rec.ings)
       IN  IF flush /\ (Busy(r) \/ InsertConflict(View(r), rec.pend))
           THEN Finish(r, 500)
           ELSE IF HasIngredient(d, t)
           THEN Work(r, flush, d,
                     [rec EXCEPT !.pend = {Association(rec.rid, d, t, rec.q)},
                                 !.ings = Tail(rec.ings),
                                 !.pc = AfterItem(rec.ings, "c_loop", "c_commit")])
           ELSE Work(r, flush, d, [rec EXCEPT !.pend = {}, !.pc = "c_ing_commit"])

\* db.add(db_ingredient); await db.commit(); await db.refresh(db_ingredient)
\* (ingredient rows are never updated or deleted: the refresh reads back the
\* row just written), then the association is added to the session.
CreateIngCommit(r) ==
    /\ req[r].pc = "c_ing_commit"
    /\ UNCHANGED <<sess, open, load>>
    /\ LET rec == req[r]
           t == Head(rec.ings)
           d == InsertIngredient(View(r), t)
       IN  IF Busy(r) \/ IngredientTitleTaken(View(r).ingredients, t)
           THEN Finish(r, 500)
           ELSE Commit(r, d,
                       [rec EXCEPT !.pend = {Association(rec.rid, d, t, rec.q)},
                                   !.ings = Tail(rec.ings),
                                   !.pc = AfterItem(rec.ings, "c_loop", "c_commit")])

\* The final await db.commit()
CreateCommit(r) ==
    /\ req[r].pc = "c_commit"
    /\ UNCHANGED <<sess, open, load>>
    /\ IF Busy(r) \/ InsertConflict(View(r), req[r].pend)
       THEN Finish(r, 500)
       ELSE Commit(r, InsertAssoc(View(r), req[r].pend),
                   [req[r] EXCEPT !.pend = {}, !.pc = "c_reload"])

\* The reload with selectinload; a missing row makes new_recipe None and the
\* attribute access raises.
CreateReload(r) ==
    /\ req[r].pc = "c_reload"
    /\ UNCHANGED <<sess, open, load>>
    /\ Finish(r, IF HasRecipe(db, req[r].rid) THEN 200 ELSE 500)

create_recipe(r) ==
    \/ \E t \in load.titles, ings \in load.lists, q \in load.qs :
          CreateCheck(r, t, ings, q)
    \/ CreateInsert(r)
    \/ CreateRefresh(r)
    \/ CreateIngSelect(r)
    \/ CreateIngCommit(r)
    \/ CreateCommit(r)
    \/ CreateReload(r)

\* ---------------------------------------------------- PATCH /recipes/{id}
\* The load of the recipe with its association rows, the setattr of the
\* supplied scalar fields and the session.delete of every loaded association.
PatchSelect(r, rid, t, supplied, ings, q) ==
    /\ Acquire(r)
    /\ LET rec == [Idle EXCEPT !.op = "patch", !.rid = rid,
                               !.field = Field(supplied, ings), !.ings = ings, !.q = q]
       IN  IF ~RecipeUpdateValid(supplied, ings) THEN FinishNew(r, rec, 422)
           ELSE IF ~HasRecipe(db, rid) THEN FinishNew(r, rec, 404)
           ELSE /\ req' = [req EXCEPT ![r] =
                      [rec EXCEPT !.title = IF t # RecipeRow(db, rid).title
                                            THEN t ELSE NoTitle,
                                  !.del = IF supplied THEN AssocOf(db, rid) ELSE {},
                                  !.named = {ings[k] : k \in 1..Len(ings)},
                                  !.pc = BeforeItems(ings, "p_loop", "p_commit")]]
                /\ UNCHANGED <<db, txdb, lock>>

PatchIngSelect(r) ==
    /\ req[r].pc = "p_loop"
    /\ UNCHANGED <<sess, open, load>>
    /\ LET rec == req[r]
           flush == Dirty(rec)
           d == IF flush THEN PatchFlush(View(r), rec) ELSE View(r)
           t == Head(rec.ings)
           clean == [rec EXCEPT !.title = NoTitle, !.del = {}, !.pend = {}]
       IN  IF flush /\ (Busy(r) \/ PatchFlushFails(View(r), rec))
           THEN Finish(r, 500)
           ELSE IF HasIngredient(d, t)
           THEN Work(r, flush, d,
                     [clean EXCEPT !.pend = {Association(rec.rid, d, t, rec.q)},
                                   !.ings = Tail(rec.ings),
                                   !.pc = AfterItem(rec.ings, "p_loop", "p_commit")])
           ELSE Work(r, flush, d, [clean EXCEPT !.pc = "p_ing_flush"])

\* session.add(ingredient); await session.flush(), then the association is
\* added to the session.
PatchIngFlush(r) ==
    /\ req[r].pc = "p_ing_flush"
    /\ UNCHANGED <<sess, open, load>>
    /\ LET rec == req[r]
           t == Head(rec.ings)
           d == InsertIngredient(View(r), t)
       IN  IF Busy(r) \/ IngredientTitleTaken(View(r).ingredients, t)
           THEN Finish(r, 500)
           ELSE Work(r, TRUE, d,
                     [rec EXCEPT !.pend = {Association(rec.rid, d, t, rec.q)},
                                 !.ings = Tail(rec.ings),
                                 !.pc = AfterItem(rec.ings, "p_loop", "p_commit")])

\* await session.commit(): with nothing to flush and no transaction begun it
\* touches nothing.
PatchCommit(r) ==
    /\ req[r].pc = "p_commit"
    /\ UNCHANGED <<sess, open, load>>
    /\ LET rec == req[r]
           flush == Dirty(rec)
           d == IF flush THEN PatchFlush(View(r), rec) ELSE View(r)
           clean == [rec EXCEPT !.title = NoTitle, !.del = {}, !.pend = {},
                                !.pc = "p_refresh"]
       IN  IF flush /\ (Busy(r) \/ PatchFlushFails(View(r), rec))
           THEN Finish(r, 500)
           ELSE IF ~flush /\ lock # r
           THEN Work(r, FALSE, d, clean)
           ELSE Commit(r, d, clean)

\* await session.refresh(recipe); return recipe
PatchRefresh(r) ==
    /\ req[r].pc = "p_refresh"
    /\ UNCHANGED <<sess, open, load>>
    /\ Finish(r, IF HasRecipe(db, req[r].rid) THEN 200 ELSE 500)

update_recipe(r) ==
    \/ \E rid \in 1..load.ids, t \in load.ptitles :
          \/ PatchSelect(r, rid, t, FALSE, <<>>, NoTitle)
          \/ \E ings \in load.lists, q \in load.qs : PatchSelect(r, rid, t, TRUE, ings, q)
    \/ PatchIngSelect(r)
    \/ PatchIngFlush(r)
    \/ PatchCommit(r)
    \/ PatchRefresh(r)

\* ---------------------------------------------------- DELETE /recipes/{id}
DeleteSelect(r, rid) ==
    /\ Acquire(r)
    /\ LET rec == [Idle EXCEPT !.op = "delete", !.rid = rid]
       IN  IF ~HasRecipe(db, rid) THEN FinishNew(r, rec, 404)
           ELSE /\ req' = [req EXCEPT ![r] =
                      [rec EXCEPT !.del = AssocOf(db, rid), !.pc = "d_exec"]]
                /\ UNCHANGED <<db, txdb, lock>>

\* await session.execute(delete(RecipeIngredient).where(recipe_id == recipe_id))
DeleteExec(r) ==
    /\ req[r].pc = "d_exec"
    /\ UNCHANGED <<sess, open, load>>
    /\ IF Busy(r)
       THEN Finish(r, 500)
       ELSE Work(r, TRUE, DeleteAssocOf(View(r), req[r].rid),
                 [req[r] EXCEPT !.pc = "d_commit"])

\* await session.delete(recipe); await session.commit(); return Response(204)
\* The flush deletes the recipe row. The association objects loaded by the
\* select are still in recipe.recipe_ingredients, a relationship without a
\* delete cascade whose foreign key is part of the primary key: the unit of
\* work either leaves these objects alone, as the statement above has deleted
\* them, or refuses to blank out their key; the refusal is caught by
\* `except Exception`, which rolls back and answers 500. Both are modelled.
DeleteCommit(r) ==
    /\ req[r].pc = "d_commit"
    /\ UNCHANGED <<sess, open, load>>
    /\ \/ Commit(r, DeleteRecipeRow(View(r), req[r].rid), Ended(req[r], 204))
       \/ /\ req[r].del # {}
          /\ Finish(r, 500)

delete_recipe(r) ==
    \/ \E rid \in 1..load.ids : DeleteSelect(r, rid)
    \/ DeleteExec(r)
    \/ DeleteCommit(r)

Init ==
    /\ db = EmptyDb
    /\ txdb = EmptyDb
    /\ lock = 0
    /\ req = [r \in Req |-> Idle]
    /\ sess = [r \in Req |-> 0]
    /\ open = {}
    /\ load \in Workloads

Step(r) ==
    \/ get_all_recipes(r)
    \/ get_recipe_detail(r)
    \/ create_recipe(r)
    \/ update_recipe(r)
    \/ delete_recipe(r)
    \/ Release(r)

Next == \E r \in Req : Step(r)

Spec == Init /\ [][Next]_vars

\* The steps of a request under way: the event loop resumes every coroutine
\* whose await has completed, and a wait for SQLite's lock ends with the lock
\* or with "database is locked".
Advance(r) ==
    /\ InFlight(r)
    /\ Step(r)

\* Whether a session is released does not depend on how many recipes or
\* ingredients there are: the fair behaviours are explored under the two
\* workloads of one recipe, which take every handler through every step.
LiveInit == Init /\ load \in {ManyQuantities, ManyViews}

LiveSpec == LiveInit /\ [][Next]_vars /\ \A r \in Req : WF_vars(Advance(r))

\* ------------------------------------------------------------------ claims
Failed(st) == st \notin {200, 204}
Mutating == {"create", "patch", "delete"}

\* The step in which the GET of request r commits its view count.
GetCommitted(r) == req[r].pc = "get_commit" /\ req'[r].pc = "get_refresh"

\* C1: view counting is exact, also for overlapping requests: the commit of
\* every GET /recipes/{id} raises the stored views of that recipe by exactly
\* one, so that N completed fetches leave views at its old value plus N.
C1_ExactViewCount ==
    [][\A r \in Req :
         GetCommitted(r) =>
            RecipeRow(db', req[r].rid).views = RecipeRow(db, req[r].rid).views + 1]_vars

\* C2: while a recipe exists its views never decreases and changes only in
\* the commit of a GET of that recipe (so a PATCH leaves it as it was); a
\* newly created recipe starts with views = 0.
C2_ViewsMonotone ==
    [][\A rid \in 1..MaxRecipeId :
         /\ HasRecipe(db, rid) /\ HasRecipe(db', rid) =>
               /\ RecipeRow(db', rid).views >= RecipeRow(db, rid).views
               /\ RecipeRow(db', rid).views # RecipeRow(db, rid).views =>
                     \E r \in Req : req[r].rid = rid /\ GetCommitted(r)
         /\ ~HasRecipe(db, rid) /\ HasRecipe(db', rid) =>
               RecipeRow(db', rid).views = 0]_vars

\* C3: a POST (with a valid payload) whose title is the title of a recipe in
\* the store is answered 400 at once and leaves the store as it was; the
\* request answered 400 takes no further step but the release of its session,
\* which changes nothing either.
C3_DuplicateTitleRejected ==
    /\ [][\A r \in Req :
            /\ ~InFlight(r)
            /\ req'[r].op = "create"
            /\ req'[r].field = "items"
            /\ \E w \in db.recipes : w.title = req'[r].title
            => /\ req'[r].pc = "done"
               /\ req'[r].status = 400
               /\ db' = db]_vars
    /\ [][\A r \in Req :
            req[r].op = "create" /\ req[r].status = 400 /\ req'[r] # req[r]
               => db' = db /\ ~InFlight(r)']_vars

C3_Witness ==
    \E r \in Req :
        /\ req[r].op = "create" /\ req[r].pc = "done" /\ req[r].status = 400
        /\ db.recipes # {} /\ db.assoc # {}

\* C4: when a create, patch or delete request has ended in a failure
\* response, no recipe row, ingredient row or association row that the
\* request committed is in the store.
C4_AllOrNothing ==
    \A r \in Req :
        req[r].pc = "done" /\ req[r].op \in Mutating /\ Failed(req[r].status)
            => /\ req[r].added.recipes \cap db.recipes = {}
               /\ req[r].added.ingredients \cap db.ingredients = {}
               /\ req[r].added.assoc \cap db.assoc = {}

\* C5: a (recipe, ingredient) pair is in at most one association row, and
\* when a PATCH with a supplied ingredients list commits, the association rows
\* of its recipe are exactly one row per supplied title, with the supplied
\* quantity.
UniquePairs(d) ==
    \A e, f \in d.assoc :
        e.recipe_id = f.recipe_id /\ e.ingredient_id = f.ingredient_id => e = f

C5_PatchReplacesAssociations ==
    /\ [](UniquePairs(db))
    /\ [][\A r \in Req :
            /\ req[r].pc = "p_commit" /\ req'[r].pc = "p_refresh"
            /\ req[r].field = "items"
            /\ HasRecipe(db', req[r].rid)
            => /\ \A t \in req[r].named : HasIngredient(db', t)
               /\ AssocOf(db', req[r].rid) =
                     {Association(req[r].rid, db', t, req[r].q) : t \in req[r].named}]_vars

\* C6 as stated: a PATCH of an existing recipe that supplies ingredients: []
\* succeeds and leaves the recipe without association rows.
C6_EmptyListClears ==
    \A r \in Req :
        /\ req[r].op = "patch" /\ req[r].field = "empty" /\ req[r].pc = "done"
        /\ HasRecipe(db, req[r].rid)
        => req[r].status = 200 /\ AssocOf(db, req[r].rid) = {}

\* C6 as amended: a PATCH that supplies ingredients: [] is rejected by the
\* validation of RecipeUpdate with 422 before update_recipe runs, and commits
\* nothing: the association rows and the ingredient rows stay as they were.
C6_EmptyListRejected ==
    /\ [](\A r \in Req :
            req[r].op = "patch" /\ req[r].field = "empty"
               => req[r].pc = "done" /\ req[r].status = 422)
    /\ [][\A r \in Req :
            /\ req[r].op = "patch" \/ req'[r].op = "patch"
            /\ req[r].field = "empty" \/ req'[r].field = "empty"
            /\ req'[r] # req[r]
            => db' = db]_vars

C6_Witness ==
    \E r \in Req :
        /\ req[r].op = "patch" /\ req[r].field = "empty" /\ req[r].status = 422
        /\ HasRecipe(db, req[r].rid)
        /\ AssocOf(db, req[r].rid) # {}

\* C7: the commit of a DELETE removes the recipe row and every association
\* row of that recipe together (the statement that deletes the associations
\* commits nothing by itself) and keeps every ingredient row; no step of any
\* request removes an ingredient row from the store.
C7_DeleteKeepsIngredients ==
    [][/\ db.ingredients \subseteq db'.ingredients
       /\ \A r \in Req :
            /\ req[r].pc = "d_exec" /\ req'[r].pc = "d_commit" => db' = db
            /\ req[r].pc = "d_commit" /\ req'[r].status # 204 => db' = db
            /\ req[r].pc = "d_commit" /\ req'[r].status = 204 =>
                  /\ ~HasRecipe(db', req[r].rid)
                  /\ AssocOf(db', req[r].rid) = {}
                  /\ db'.ingredients = db.ingredients
                  /\ db'.recipes = {w \in db.recipes : w.id # req[r].rid}
                  /\ db'.assoc = {e \in db.assoc : e.recipe_id # req[r].rid}]_vars

\* A DELETE has answered 204 for a recipe that had association rows, added by
\* a request that has not yet released its session: the rows are gone with
\* the recipe, and the ingredient rows they referred to are in the store.
C7_Witness ==
    \E r, k \in Req :
        /\ req[r].op = "delete" /\ req[r].pc = "done" /\ req[r].status = 204
        /\ \E e \in req[k].added.assoc : e.recipe_id = req[r].rid
        /\ \A e \in req[k].added.assoc :
              \E g \in db.ingredients : g.id = e.ingredient_id
        /\ ~HasRecipe(db, req[r].rid)
        /\ AssocOf(db, req[r].rid) = {}

\* C8: no two ingredient rows and no two recipe rows share a title, in the
\* store and in every open transaction; and a create or patch that names an
\* ingredient title its session can see associates the existing row's id and
\* adds no ingredient row.
UniqueTitles(d) ==
    /\ \A g, h \in d.ingredients : g.title = h.title => g = h
    /\ \A w, x \in d.recipes : w.title = x.title => w = x

C8_UniqueTitlesAndReuse ==
    /\ [](UniqueTitles(db) /\ UniqueTitles(txdb))
    /\ [][\A r \in Req :
            /\ req[r].pc \in {"c_loop", "p_loop"}
            /\ req'[r] # req[r]
            /\ req'[r].pc # "done"
            /\ HasIngredient(View(r), Head(req[r].ings))
            => /\ req'[r].pend =
                    {Association(req[r].rid, View(r), Head(req[r].ings), req[r].q)}
               /\ (IF lock' = r THEN txdb' ELSE db').ingredients
                     = View(r).ingredients]_vars

\* Two requests race for the same new title: request k has looked the title
\* up, found no row and is about to insert it, and meanwhile request r has
\* committed an ingredient row of that title.
C8_Witness ==
    \E r, k \in Req :
        /\ r # k
        /\ req[k].pc \in {"c_ing_commit", "p_ing_flush"}
        /\ HasIngredient(db, Head(req[k].ings))
        /\ IngredientRow(db, Head(req[k].ings)) \in req[r].added.ingredients

\* C9: every request under way holds an open session of its own, no session
\* is open without its request, and every open session is eventually closed,
\* whatever the response.
SessionScoped ==
    /\ \A r \in Req : InFlight(r) <=> sess[r] # 0
    /\ open = {sess[r] : r \in {k \in Req : InFlight(k)}}
    /\ \A r, k \in Req : InFlight(r) /\ InFlight(k) /\ r # k => sess[r] # sess[k]

C9_SessionReleased ==
    /\ [](SessionScoped)
    /\ \A s \in 1..(Cardinality(Req) + 1) : (s \in open) ~> (s \notin open)

C9_Witness ==
    \E r, k \in Req :
        /\ r # k
        /\ req[r].pc = "done" /\ req[r].status = 500 /\ sess[r] \in open
        /\ InFlight(k) /\ req[k].pc # "done" /\ sess[k] \in open

\* C10: every association row of the store refers to a recipe row and to an
\* ingredient row of the store.
C10_ReferentialIntegrity ==
    \A e \in db.assoc :
        /\ HasRecipe(db, e.recipe_id)
        /\ \E g \in db.ingredients : g.id = e.ingredient_id
====
